---------------------------- MODULE Spec2Model ----------------------------
(***************************************************************************)
(* A model of ttree.Tree and ttree.Node (src/ttree/tree.py, node.py).      *)
(*                                                                         *)
(* A Tree is an OrderedDict from node id to Node plus the attribute root.  *)
(* A Node holds tag, parent (an id or None), children (a list of ids) and  *)
(* expanded.  Node ids are the integers 0..NumIds-1; 0 is the id Python    *)
(* treats as false.  Every Tree method is an operator from the tree before *)
(* the call to an Outcome: the tree after it, the exception raised ("ok"   *)
(* when it returns) and the value returned.  A call that raises half way   *)
(* leaves the mutations made before the raise, as in the code.  A call     *)
(* whose loop never ends (a walk round a cycle of links) has the exception *)
(* "diverge" and is no step of the state machine: it never returns.        *)
(***************************************************************************)
EXTENDS Integers, Sequences, FiniteSets, TLC

\* Number of distinct node ids the callers use.
NumIds == 4
\* Largest tree that is built on the side and handed to paste().
MaxOther == 2
\* Number of calls followed on a tree that has already lost the invariants
\* of the data model (a stale child id, a second parentless node, a loop).
MaxStray == 1

\* Python's None, for ids, parents, root and return values.
None == -1

Ids == 0 .. (NumIds - 1)
IdsOrNone == Ids \cup {None}

VARIABLES
    nodes,      \* the Tree as a mapping: id -> Node
    root,       \* Tree.root
    before,     \* the tree as the last call found it
    call,       \* the last call made on the tree: [op, a, b]
    exc,        \* how it ended: "ok" or the name of the exception raised
    ret,        \* the value it returned, or None
    subtree,    \* the Tree that remove_subtree returned
    stray,      \* calls made so far on a tree that was not WellFormed
    heap,       \* the Node objects of the tree and of its copy, by address
    origin,     \* the tree as references: root and id -> address
    copied,     \* Tree(tree, deepcopy), as references, and its deepcopy
    edits,      \* assignments made so far to the nodes of the copy
    tree_of,    \* Node._tree of the nodes of the tree: id -> "self", "other"
                \* (another Tree) or None
    tree_of_deleted     \* Node._tree of the nodes the last call deleted

\* What a copy of the tree is made of.
copies == <<heap, origin, copied, edits>>

\* The back references from the nodes to the tree that holds them.
links == <<tree_of, tree_of_deleted>>

vars == <<nodes, root, before, call, exc, ret, subtree, stray, copies, links>>

---------------------------------------------------------------------------
\* Sequences and mappings.

Range(s) == {s[i] : i \in 1 .. Len(s)}

Count(s, x) == Cardinality({i \in 1 .. Len(s) : s[i] = x})

NoDup(s) == \A i, j \in 1 .. Len(s) : s[i] = s[j] => i = j

\* list.remove(x): drops the first occurrence of x.
RECURSIVE RemoveFirst(_, _)
RemoveFirst(s, x) ==
    IF s = <<>> THEN <<>>
    ELSE IF Head(s) = x THEN Tail(s)
    ELSE <<Head(s)>> \o RemoveFirst(Tail(s), x)

EmptyNodes == [i \in {} |-> None]

\* self[key] = value
Put(ns, key, value) ==
    [i \in (DOMAIN ns) \cup {key} |-> IF i = key THEN value ELSE ns[i]]

\* del self[key] / self.pop(key), key present
Del(ns, key) == [i \in (DOMAIN ns) \ {key} |-> ns[i]]

\* other's entries written over ns's (dict.update)
Update(ns, other) ==
    [i \in (DOMAIN ns) \cup (DOMAIN other) |->
        IF i \in DOMAIN other THEN other[i] ELSE ns[i]]

\* list.reverse()
Reverse(s) == [i \in 1 .. Len(s) |-> s[Len(s) + 1 - i]]

\* bool(x) for an id or None
Truthy(x) == x # None /\ x # 0

---------------------------------------------------------------------------
\* Node (src/ttree/node.py)

\* Node(tag, id): tag None becomes the id; no parent, no children, expanded.
Node(tag, id) ==
    [tag |-> IF tag = None THEN id ELSE tag,
     parent |-> None,
     children |-> <<>>,
     expanded |-> TRUE]

add_child(node, node_id) ==
    IF node_id # None
    THEN [node EXCEPT !.children = Append(@, node_id)]
    ELSE node

remove_child(node, node_id) ==
    IF node_id # None /\ node_id \in Range(node.children)
    THEN [node EXCEPT !.children = RemoveFirst(@, node_id)]
    ELSE node

---------------------------------------------------------------------------
\* Tree (src/ttree/tree.py)

\* Tree()
EmptyTree == [root |-> None, nodes |-> EmptyNodes]

Tree(r, ns) == [root |-> r, nodes |-> ns]

Has(t, id) == id \in DOMAIN t.nodes

Outcome(t, e, r, s) == [tree |-> t, exc |-> e, ret |-> r, subtree |-> s]
Ok(t) == Outcome(t, "ok", None, EmptyTree)
Raise(t, e) == Outcome(t, e, None, EmptyTree)

\* add_node without the test `node.id in self`: a node of an id already in
\* the tree is written over the one that is there
add_node_unchecked(t, id, node, pid) ==
    IF pid = None /\ t.root # None THEN Raise(t, "MultipleRoots")
    ELSE IF pid # None /\ ~Has(t, pid) THEN Raise(t, "NodeNotFound")
    ELSE LET ns1 == Put(t.nodes, id, node)
             ns2 == IF pid \in DOMAIN ns1
                    THEN [ns1 EXCEPT ![pid] = add_child(@, id)] ELSE ns1
         IN  Ok(Tree(IF pid = None THEN id ELSE t.root,
                     [ns2 EXCEPT ![id].parent = pid]))

\* add_node(node, parent) for a node whose id is `id`
add_node(t, id, node, pid) ==
    IF Has(t, id) THEN Raise(t, "DuplicatedNode")
    ELSE IF pid = None /\ t.root # None THEN Raise(t, "MultipleRoots")
    ELSE IF pid # None /\ ~Has(t, pid) THEN Raise(t, "NodeNotFound")
    ELSE LET ns1 == Put(t.nodes, id, node)
             ns2 == IF pid \in DOMAIN ns1
                    THEN [ns1 EXCEPT ![pid] = add_child(@, id)] ELSE ns1
         IN  Ok(Tree(IF pid = None THEN id ELSE t.root,
                     [ns2 EXCEPT ![id].parent = pid]))

\* create_node(tag, id, parent=pid)
create_node(t, tag, id, pid) == add_node(t, id, Node(tag, id), pid)


\* How expand_tree is asked to walk: mode "depth", "width" or "zigzag";
\* filtering, the set of ids whose node passes the filter (NoFilter: no
\* filter given, and filter(None, ...) keeps every Node, a Node being true);
\* key "None" sorts with Node.__lt__, that is by tag; reverse.
NoFilter == Ids
Walk(mode, filtering, key, reverse) ==
    [mode |-> mode, filtering |-> filtering, key |-> key, reverse |-> reverse]
DefaultWalk == Walk("depth", NoFilter, "None", FALSE)

SortKey(t, key, id) ==
    IF key = "id" THEN id
    ELSE IF key = "-id" THEN 0 - id
    ELSE t.nodes[id].tag

\* where sorted() puts x among the already sorted s: after every element
\* that does not have to follow it (the sort is stable, reversed or not)
RECURSIVE Insert(_, _, _, _, _)
Insert(t, w, s, x, i) ==
    IF i > Len(s) THEN Append(s, x)
    ELSE IF (IF w.reverse
             THEN SortKey(t, w.key, s[i]) < SortKey(t, w.key, x)
             ELSE SortKey(t, w.key, x) < SortKey(t, w.key, s[i]))
         THEN SubSeq(s, 1, i - 1) \o <<x>> \o SubSeq(s, i, Len(s))
         ELSE Insert(t, w, s, x, i + 1)

\* sorted(queue, key=key, reverse=reverse) over the nodes with ids s
RECURSIVE Sorted(_, _, _)
Sorted(t, w, s) ==
    IF s = <<>> THEN <<>>
    ELSE Insert(t, w, Sorted(t, w, SubSeq(s, 1, Len(s) - 1)), s[Len(s)], 1)

\* a filter that lets every id through
Filtered_all(w, s) == s

\* filter(filtering, ...) over the ids s
Filtered(w, s) == SelectSeq(s, LAMBDA i : i \in w.filtering)

\* Turns of the loop after which a walk over children links is in a cycle.
\* Every turn yields the end of one more path of children links from the
\* start; over NumIds nodes whose lists repeat no id there are fewer than
\* 2^(NumIds-1) such paths unless one of them comes back to a node.
ExpandFuel == 2 ^ (NumIds - 1)

\* (self[i] for i in children), consumed: NodeNotFound on an absent id
AllPresent(t, children) == \A i \in Range(children) : Has(t, i)

\* the loop of expand_tree yielding what is queued and expanding none of it
expand_loop_flat(t, w, queue, out, fuel) ==
    [out |-> out \o queue, exc |-> "ok"]

\* the while loop of expand_tree, modes depth and width
RECURSIVE expand_loop(_, _, _, _, _)
expand_loop(t, w, queue, out, fuel) ==
    IF queue = <<>> THEN [out |-> out, exc |-> "ok"]
    ELSE IF fuel = 0 THEN [out |-> out, exc |-> "diverge"]
    ELSE LET head == Head(queue)
             kids == t.nodes[head].children
         IN  IF ~AllPresent(t, kids)
             THEN [out |-> Append(out, head), exc |-> "NodeNotFound"]
             ELSE LET expansion == Sorted(t, w, Filtered(w, kids))
                  IN  expand_loop(t, w,
                          IF w.mode = "depth"
                          THEN expansion \o Tail(queue)
                          ELSE Tail(queue) \o expansion,
                          Append(out, head), fuel - 1)

\* the loop of mode zigzag walking every level in the same direction
zigzag_loop_width(t, w, stack_fw, stack_bw, direction, out, fuel) ==
    expand_loop(t, [w EXCEPT !.mode = "width"], stack_bw, out, fuel)

\* the while loop of expand_tree, mode zigzag.  stack is the same list as
\* stack_fw when direction is true and the same list as stack_bw when it is
\* false, so stack.pop(0) takes the head of that list; the children found
\* go in front of the other list.  Neither key nor reverse is used.
RECURSIVE zigzag_loop(_, _, _, _, _, _, _)
zigzag_loop(t, w, stack_fw, stack_bw, direction, out, fuel) ==
    LET stack == IF direction THEN stack_fw ELSE stack_bw
    IN  IF stack = <<>> THEN [out |-> out, exc |-> "ok"]
        ELSE IF fuel = 0 THEN [out |-> out, exc |-> "diverge"]
        ELSE LET head == Head(stack)
                 kids == t.nodes[head].children
                 expansion == Filtered(w, kids)
                 fw == IF direction THEN Tail(stack_fw)
                       ELSE expansion \o stack_fw
                 bw == IF direction THEN Reverse(expansion) \o stack_bw
                       ELSE Tail(stack_bw)
                 left == IF direction THEN fw ELSE bw
             IN  IF ~AllPresent(t, kids)
                 THEN [out |-> Append(out, head), exc |-> "NodeNotFound"]
                 ELSE zigzag_loop(t, w, fw, bw,
                          IF left = <<>> THEN ~direction ELSE direction,
                          Append(out, head), fuel - 1)

\* expand_tree that walks as in mode WIDTH when asked for DEPTH and as in
\* mode DEPTH when asked for WIDTH
expand_tree_swapped(t, node_id, w) ==
    LET nid == IF node_id = None THEN t.root ELSE node_id
        other == IF w.mode = "depth" THEN "width" ELSE "depth"
    IN  IF ~Has(t, nid) THEN [out |-> <<>>, exc |-> "NodeNotFound"]
        ELSE IF nid \notin w.filtering THEN [out |-> <<>>, exc |-> "ok"]
        ELSE expand_loop(t, [w EXCEPT !.mode = other],
                 Sorted(t, w, Filtered(w, t.nodes[nid].children)),
                 <<nid>>, ExpandFuel)

\* expand_tree(node_id, mode, filtering, key, reverse): the ids yielded and
\* how the generator ends
expand_tree(t, node_id, w) ==
    LET nid == IF node_id = None THEN t.root ELSE node_id
    IN  IF ~Has(t, nid) THEN [out |-> <<>>, exc |-> "NodeNotFound"]
        ELSE IF nid \notin w.filtering THEN [out |-> <<>>, exc |-> "ok"]
        ELSE IF ~AllPresent(t, t.nodes[nid].children)
        THEN [out |-> <<nid>>, exc |-> "NodeNotFound"]
        ELSE IF w.mode = "zigzag"
        THEN zigzag_loop(t, w, <<>>,
                 Reverse(Filtered(w, t.nodes[nid].children)),
                 FALSE, <<nid>>, ExpandFuel)
        ELSE expand_loop(t, w,
                 Sorted(t, w, Filtered(w, t.nodes[nid].children)),
                 <<nid>>, ExpandFuel)

\* for id_ in removed: del self[id_]  -- KeyError at an id already deleted
RECURSIVE DelAll(_, _)
DelAll(ns, removed) ==
    IF removed = <<>> THEN [nodes |-> ns, exc |-> "ok"]
    ELSE IF Head(removed) \notin DOMAIN ns
    THEN [nodes |-> ns, exc |-> "KeyError"]
    ELSE DelAll(Del(ns, Head(removed)), Tail(removed))

\* remove_node(node_id)
remove_node(t, node_id) ==
    IF node_id = None THEN Outcome(t, "ok", 0, EmptyTree)
    ELSE IF ~Has(t, node_id) THEN Raise(t, "NodeNotFound")
    ELSE LET parent == t.nodes[node_id].parent
             removed == expand_tree(t, node_id, DefaultWalk)
             d == DelAll(t.nodes, removed.out)
             t1 == Tree(t.root, d.nodes)
         IN  IF removed.exc # "ok" THEN Raise(t, removed.exc)
             ELSE IF d.exc # "ok" THEN Raise(t1, d.exc)
             ELSE IF ~Truthy(parent)
             THEN Outcome(t1, "ok", Len(removed.out), EmptyTree)
             ELSE IF ~Has(t1, parent) THEN Raise(t1, "NodeNotFound")
             ELSE Outcome(
                    Tree(t.root,
                         [d.nodes EXCEPT ![parent] = remove_child(@, node_id)]),
                    "ok", Len(removed.out), EmptyTree)

\* subtree[id_] = self.pop(id_) for each id_ of removed -- KeyError at an id
\* already popped
RECURSIVE PopAll(_, _, _)
PopAll(ns, sub, removed) ==
    IF removed = <<>> THEN [nodes |-> ns, sub |-> sub, exc |-> "ok"]
    ELSE IF Head(removed) \notin DOMAIN ns
    THEN [nodes |-> ns, sub |-> sub, exc |-> "KeyError"]
    ELSE PopAll(Del(ns, Head(removed)),
                Put(sub, Head(removed), ns[Head(removed)]),
                Tail(removed))

\* remove_subtree(node_id)
remove_subtree(t, node_id) ==
    IF node_id = None THEN Outcome(t, "ok", None, EmptyTree)
    ELSE IF ~Has(t, node_id) THEN Raise(t, "NodeNotFound")
    ELSE LET parent == t.nodes[node_id].parent
             t1 == Tree(t.root, [t.nodes EXCEPT ![node_id].parent = None])
             removed == expand_tree(t1, node_id, DefaultWalk)
             m == PopAll(t1.nodes, EmptyNodes, removed.out)
             t2 == Tree(t.root, m.nodes)
         IN  IF removed.exc # "ok" THEN Raise(t1, removed.exc)
             ELSE IF m.exc # "ok" THEN Raise(t2, m.exc)
             ELSE IF ~Has(t2, parent) THEN Raise(t2, "NodeNotFound")
             ELSE Outcome(
                    Tree(t.root,
                         [m.nodes EXCEPT ![parent] = remove_child(@, node_id)]),
                    "ok", None, Tree(node_id, m.sub))

\* for child in self[node_id].children: self[child].parent = parent.id
\* -- NodeNotFound at a child that is not in the tree
RECURSIVE Reparent(_, _, _)
Reparent(ns, children, pid) ==
    IF children = <<>> THEN [nodes |-> ns, exc |-> "ok"]
    ELSE IF Head(children) \notin DOMAIN ns
    THEN [nodes |-> ns, exc |-> "NodeNotFound"]
    ELSE Reparent([ns EXCEPT ![Head(children)].parent = pid],
                  Tail(children), pid)

\* link_past_node(node_id)
link_past_node(t, node_id) ==
    IF t.root = node_id THEN Raise(t, "LinkPastRootNode")
    ELSE IF ~Has(t, node_id) THEN Raise(t, "NodeNotFound")
    ELSE IF ~Has(t, t.nodes[node_id].parent) THEN Raise(t, "NodeNotFound")
    ELSE LET pid == t.nodes[node_id].parent
             r == Reparent(t.nodes, t.nodes[node_id].children, pid)
             ns1 == [r.nodes EXCEPT
                        ![pid].children = @ \o r.nodes[node_id].children]
             ns2 == [ns1 EXCEPT ![pid] = remove_child(@, node_id)]
         IN  IF r.exc # "ok" THEN Raise(Tree(t.root, r.nodes), r.exc)
             ELSE Ok(Tree(t.root, Del(ns2, node_id)))

\* Steps after which a walk up the parent links is in a cycle.
AncestorFuel == NumIds + 1

\* the while loop of is_ancestor; parent is self[child].parent throughout
RECURSIVE ancestor_loop(_, _, _, _)
ancestor_loop(t, ancestor, parent, fuel) ==
    IF parent = None THEN [val |-> FALSE, exc |-> "ok"]
    ELSE IF parent = ancestor THEN [val |-> TRUE, exc |-> "ok"]
    ELSE IF ~Has(t, parent) THEN [val |-> FALSE, exc |-> "NodeNotFound"]
    ELSE IF fuel = 0 THEN [val |-> FALSE, exc |-> "diverge"]
    ELSE ancestor_loop(t, ancestor, t.nodes[parent].parent, fuel - 1)

\* is_ancestor looking at the parent of grandchild only, not further up
is_ancestor_parent_only(t, ancestor, grandchild) ==
    [val |-> t.nodes[grandchild].parent = ancestor, exc |-> "ok"]

\* is_ancestor(ancestor, grandchild), grandchild in the tree
is_ancestor(t, ancestor, grandchild) ==
    ancestor_loop(t, ancestor, t.nodes[grandchild].parent, AncestorFuel)

\* move_node(source, destination)
move_node(t, source, destination) ==
    IF ~Has(t, source) \/ ~Has(t, destination) THEN Raise(t, "NodeNotFound")
    ELSE LET loop == is_ancestor(t, source, destination)
             parent == t.nodes[source].parent
             ns1 == [t.nodes EXCEPT ![parent] = remove_child(@, source)]
             ns2 == [ns1 EXCEPT ![destination] = add_child(@, source)]
         IN  IF loop.exc # "ok" THEN Raise(t, loop.exc)
             ELSE IF loop.val THEN Raise(t, "LoopError")
             ELSE IF ~Has(t, parent) THEN Raise(t, "NodeNotFound")
             ELSE Ok(Tree(t.root, [ns2 EXCEPT ![source].parent = destination]))

\* __merge_tree that takes nothing over from other
merge_tree_nothing(ns, other, deepcopy) == ns

\* __merge_tree(other, deepcopy): the copies of a deep copy hold the same
\* values as the nodes of a shallow one
merge_tree(ns, other, deepcopy) ==
    IF deepcopy
    THEN Update(ns, [i \in DOMAIN other.nodes |-> other.nodes[i]])
    ELSE Update(ns, other.nodes)

\* paste without the test for ids that both trees hold: the nodes of new_tree
\* are written over those of the tree
paste_over(t, node_id, new_tree, deepcopy) ==
    IF node_id = None THEN Raise(t, "ValueError")
    ELSE IF ~Has(t, node_id) THEN Raise(t, "NodeNotFound")
    ELSE LET ns1 == Update(t.nodes, new_tree.nodes)
             ns2 == [ns1 EXCEPT ![node_id] = add_child(@, new_tree.root)]
             t2 == Tree(t.root, ns2)
         IN  IF ~Has(t2, new_tree.root) THEN Raise(t2, "NodeNotFound")
             ELSE Ok(Tree(t.root, [ns2 EXCEPT ![new_tree.root].parent = node_id]))

\* paste(node_id, new_tree, deepcopy)
paste(t, node_id, new_tree, deepcopy) ==
    IF node_id = None THEN Raise(t, "ValueError")
    ELSE IF ~Has(t, node_id) THEN Raise(t, "NodeNotFound")
    ELSE IF (DOMAIN new_tree.nodes) \cap (DOMAIN t.nodes) # {}
    THEN Raise(t, "ValueError")
    ELSE LET ns1 == merge_tree(t.nodes, new_tree, deepcopy)
             ns2 == [ns1 EXCEPT ![node_id] = add_child(@, new_tree.root)]
             t2 == Tree(t.root, ns2)
         IN  IF ~Has(t2, new_tree.root) THEN Raise(t2, "NodeNotFound")
             ELSE Ok(Tree(t.root, [ns2 EXCEPT ![new_tree.root].parent = node_id]))

\* The ids of the nodes that subtree(node_id) stores in the Tree it builds:
\* those that expand_tree yields from node_id, until it ends or raises.
subtree_stored(t, node_id) ==
    IF node_id = None \/ ~Has(t, node_id) THEN {}
    ELSE Range(expand_tree(t, node_id, DefaultWalk).out)

\* subtree(node_id): the Tree returned holds the nodes that expand_tree
\* yields from node_id, with node_id as root; the tree itself keeps them.
subtree_of(t, node_id) ==
    IF node_id = None THEN Ok(t)
    ELSE IF ~Has(t, node_id) THEN Raise(t, "NodeNotFound")
    ELSE LET r == expand_tree(t, node_id, DefaultWalk)
         IN  IF r.exc # "ok" THEN Raise(t, r.exc)
             ELSE Outcome(t, "ok", None,
                          Tree(node_id,
                               [i \in Range(r.out) |-> t.nodes[i]]))

\* the while loop of rsearch: self[current] is looked up for the filter, when
\* one is given, and for the parent, unless current is the root
RECURSIVE rsearch_loop(_, _, _, _, _)
rsearch_loop(t, filtering, current, out, fuel) ==
    IF current = None THEN [out |-> out, exc |-> "ok"]
    ELSE IF filtering # NoFilter /\ ~Has(t, current)
    THEN [out |-> out, exc |-> "NodeNotFound"]
    ELSE LET out1 == IF current \in filtering
                     THEN Append(out, current) ELSE out
         IN  IF t.root = current THEN [out |-> out1, exc |-> "ok"]
             ELSE IF ~Has(t, current)
             THEN [out |-> out1, exc |-> "NodeNotFound"]
             ELSE IF fuel = 0 THEN [out |-> out1, exc |-> "diverge"]
             ELSE rsearch_loop(t, filtering, t.nodes[current].parent,
                               out1, fuel - 1)

\* rsearch(node_id, filtering): the ids yielded and how the generator ends
rsearch(t, node_id, filtering) ==
    IF node_id = None THEN [out |-> <<>>, exc |-> "ok"]
    ELSE IF ~Has(t, node_id) THEN [out |-> <<>>, exc |-> "NodeNotFound"]
    ELSE rsearch_loop(t, filtering, node_id, <<>>, AncestorFuel)

\* level counting the node itself: len(...) without the - 1
level_len(t, node_id, filtering) ==
    LET r == rsearch(t, node_id, filtering)
    IN  [val |-> Len(r.out), exc |-> r.exc]

\* level(node_id, filtering)
level(t, node_id, filtering) ==
    LET r == rsearch(t, node_id, filtering)
    IN  [val |-> Len(r.out) - 1, exc |-> r.exc]

\* Node.is_leaf
is_leaf(node) == node.children = <<>>

\* leaves(): the ids of [n for n in self.values() if n.is_leaf]
leaves(t) == {n \in DOMAIN t.nodes : is_leaf(t.nodes[n])}

Max(S) == CHOOSE x \in S : \A y \in S : y <= x

\* depth(node)
depth(t, node) ==
    IF node = None
    THEN LET failed == {l \in leaves(t) : level(t, l, NoFilter).exc # "ok"}
         IN  IF failed # {}
             THEN [val |-> 0,
                   exc |-> level(t, CHOOSE l \in failed : TRUE, NoFilter).exc]
             ELSE [val |-> Max({0} \cup
                             {level(t, l, NoFilter).val : l \in leaves(t)}),
                   exc |-> "ok"]
    ELSE IF ~Has(t, node) THEN [val |-> 0, exc |-> "NodeNotFound"]
    ELSE level(t, node, NoFilter)

\* size(): len(self)
size(t) == Cardinality(DOMAIN t.nodes)

\* size(level): for an integer level, the number of nodes whose level() is
\* that level; no test is made of the level given
size_level(t, lvl) ==
    IF lvl = None THEN [val |-> size(t), exc |-> "ok"]
    ELSE LET failed == {n \in DOMAIN t.nodes : level(t, n, NoFilter).exc # "ok"}
         IN  IF failed # {}
             THEN [val |-> 0,
                   exc |-> level(t, CHOOSE n \in failed : TRUE, NoFilter).exc]
             ELSE [val |-> Cardinality({n \in DOMAIN t.nodes :
                                          level(t, n, NoFilter).val = lvl}),
                   exc |-> "ok"]

\* What to_dict builds for a node: the bare tag, {tag: {'data': ...}},
\* {tag: {'children': [...]}} or {tag: {'children': [...], 'data': ...}}.
\* No node of the model carries data, so the payload is None.
BareTag(tag) == [tag |-> tag]
TagData(tag) == [tag |-> tag, data |-> None]
TagChildren(tag, children, with_data) ==
    IF with_data THEN [tag |-> tag, children |-> children, data |-> None]
    ELSE [tag |-> tag, children |-> children]

\* to_dict(node_id, key, sort, reverse, with_data) and the list it builds
\* for the children; the call made for a child passes no key
RECURSIVE to_dict(_, _, _, _, _, _, _)
RECURSIVE to_dict_children(_, _, _, _, _, _)
to_dict(t, node_id, key, sort, reverse, with_data, fuel) ==
    LET nid == IF node_id = None THEN t.root ELSE node_id
    IN  IF ~Has(t, nid) THEN [val |-> None, exc |-> "NodeNotFound"]
        ELSE IF fuel = 0 THEN [val |-> None, exc |-> "diverge"]
        ELSE
        LET node == t.nodes[nid]
            queue == IF sort
                     THEN Sorted(t, Walk("depth", NoFilter, key, reverse),
                                 node.children)
                     ELSE node.children
            kids == to_dict_children(t, queue, sort, reverse, with_data,
                                     fuel - 1)
        IN  IF ~node.expanded
            THEN [val |-> TagChildren(node.tag, <<>>, with_data),
                  exc |-> "ok"]
            ELSE IF ~AllPresent(t, node.children)
            THEN [val |-> None, exc |-> "NodeNotFound"]
            ELSE IF kids.exc # "ok" THEN [val |-> None, exc |-> kids.exc]
            ELSE IF kids.val = <<>>
            THEN [val |-> IF with_data THEN TagData(node.tag)
                          ELSE BareTag(node.tag),
                  exc |-> "ok"]
            ELSE [val |-> TagChildren(node.tag, kids.val, with_data),
                  exc |-> "ok"]

to_dict_children(t, queue, sort, reverse, with_data, fuel) ==
    IF queue = <<>> THEN [val |-> <<>>, exc |-> "ok"]
    ELSE LET first == to_dict(t, Head(queue), "None", sort, reverse,
                              with_data, fuel)
             rest == to_dict_children(t, Tail(queue), sort, reverse,
                                      with_data, fuel)
         IN  IF first.exc # "ok" THEN [val |-> <<>>, exc |-> first.exc]
             ELSE IF rest.exc # "ok" THEN [val |-> <<>>, exc |-> rest.exc]
             ELSE [val |-> <<first.val>> \o rest.val, exc |-> "ok"]

\* Depth of recursion after which to_dict is in a cycle of children links.
DictFuel == NumIds + 1

\* The renderer (src/ttree/utils.py).  A prefix is the list of its four
\* character segments: "line" is c_line and three blanks, "blank" is four
\* blanks, "branch" is c_branch and "corner" is c_corner.

\* a prefix with no vertical line in it
Prefix_blank(is_last) ==
    [i \in 1 .. Len(is_last) |->
        IF i < Len(is_last) THEN "blank"
        ELSE (IF is_last[i] THEN "corner" ELSE "branch")]

\* leading + lasting, for the flags is_last of a node below the start
Prefix(is_last) ==
    [i \in 1 .. Len(is_last) |->
        IF i < Len(is_last)
        THEN (IF is_last[i] THEN "blank" ELSE "line")
        ELSE (IF is_last[i] THEN "corner" ELSE "branch")]

\* The ids of children before the first one that is not in the tree.
RECURSIVE PresentPrefix(_, _)
PresentPrefix(t, children) ==
    IF children = <<>> \/ ~Has(t, Head(children)) THEN <<>>
    ELSE <<Head(children)>> \o PresentPrefix(t, Tail(children))

\* The children the renderer goes through, in its order: sorted() when a key
\* is given, reversed when only reverse is, else the children list.
Rendered(t, w, children) ==
    IF w.key # "None" THEN Sorted(t, w, Filtered(w, children))
    ELSE IF w.reverse THEN Reverse(Filtered(w, children))
    ELSE Filtered(w, children)

\* tree_printer_gen(tree, node_id, filtering, key, reverse, ascii_mode,
\* is_last, level=lvl): the (prefix, node) pairs yielded and how the generator
\* ends.  fuel is the recursion depth left.
RECURSIVE tree_printer_gen(_, _, _, _, _, _)
RECURSIVE printer_loop(_, _, _, _, _, _, _, _)
tree_printer_gen(t, node_id, w, is_last, lvl, fuel) ==
    LET nid == IF node_id = None THEN t.root ELSE node_id
    IN  IF ~Has(t, nid) THEN [out |-> <<>>, exc |-> "NodeNotFound"]
        ELSE
        LET item == [pre |-> IF lvl = 0 THEN <<>> ELSE Prefix(is_last),
                     node |-> nid]
            kids == t.nodes[nid].children
            lazy == w.key = "None" /\ ~w.reverse
        IN  IF ~t.nodes[nid].expanded \/ nid \notin w.filtering
            THEN [out |-> <<item>>, exc |-> "ok"]
            ELSE IF fuel = 0 THEN [out |-> <<item>>, exc |-> "RecursionError"]
            ELSE IF AllPresent(t, kids)
            THEN printer_loop(t, w, Rendered(t, w, kids), is_last,
                              lvl + 1, <<item>>, "ok", fuel)
            ELSE IF lazy
            THEN LET found == Filtered(w, PresentPrefix(t, kids))
                 IN  printer_loop(t, w,
                         SubSeq(found, 1, Len(found) - 1), is_last,
                         lvl + 1, <<item>>, "NodeNotFound", fuel)
            ELSE [out |-> <<item>>, exc |-> "NodeNotFound"]

\* the while loop of tree_printer_gen over the children still to come; the
\* child after the current one is fetched before the current one is
\* rendered, and the generator ends as `end` once they are all rendered
printer_loop(t, w, children, is_last, lvl, out, end, fuel) ==
    IF children = <<>> THEN [out |-> out, exc |-> end]
    ELSE LET last == Len(children) = 1 /\ end = "ok"
             r == tree_printer_gen(t, Head(children), w,
                                   Append(is_last, last), lvl, fuel - 1)
         IN  IF r.exc # "ok" THEN [out |-> out \o r.out, exc |-> r.exc]
             ELSE printer_loop(t, w, Tail(children), is_last, lvl,
                               out \o r.out, end, fuel)

---------------------------------------------------------------------------
\* The callers: any sequence of calls on one tree.

\* The trees a caller builds on the side with at most k create_node calls.
RECURSIVE Built(_)
Built(k) ==
    IF k = 0 THEN {EmptyTree}
    ELSE LET prev == Built(k - 1)
         IN  prev \cup {create_node(o, None, id, pid).tree :
                            o \in prev, id \in Ids, pid \in IdsOrNone}

OtherTrees == Built(MaxOther)

Self == Tree(root, nodes)

\* The model stops short of a children list that repeats an id (only a
\* call on a tree that already keeps a stale id produces one).
Bounded(t) == \A i \in DOMAIN t.nodes : NoDup(t.nodes[i].children)

\* The ids met walking up the parent links from id, id included, for at
\* most k links.
RECURSIVE Chain(_, _, _)
Chain(t, id, k) ==
    IF id = None \/ ~Has(t, id) \/ k = 0 THEN {}
    ELSE {id} \cup Chain(t, t.nodes[id].parent, k - 1)

\* The invariants of the data model (spec section 3, invariants 1 to 5).
WellFormed(t) ==
    /\ (t.root = None) = (DOMAIN t.nodes = {})
    /\ t.root # None => Has(t, t.root)
    /\ \A n \in DOMAIN t.nodes :
          /\ (t.nodes[n].parent = None) = (n = t.root)
          /\ n # t.root =>
                /\ Has(t, t.nodes[n].parent)
                /\ Count(t.nodes[t.nodes[n].parent].children, n) = 1
          /\ NoDup(t.nodes[n].children)
          /\ \A c \in Range(t.nodes[n].children) :
                Has(t, c) /\ t.nodes[c].parent = n
          /\ t.root \in Chain(t, n, NumIds)

Call(op, a, b) == [op |-> op, a |-> a, b |-> b]

\* A call is followed on a tree that holds its invariants, and MaxStray
\* times on one that does not.
Follow ==
    /\ WellFormed(Self) \/ stray < MaxStray
    /\ stray' = IF WellFormed(Self) THEN stray ELSE stray + 1

\* The call returns or raises, and leaves the tree as the outcome says.
Becomes(c, o) ==
    /\ o.exc # "diverge"
    /\ Bounded(o.tree)
    /\ nodes' = o.tree.nodes
    /\ root' = o.tree.root
    /\ before' = Self
    /\ call' = c
    /\ exc' = o.exc
    /\ ret' = o.ret
    /\ subtree' = o.subtree
    /\ UNCHANGED <<copies, links>>

\* The back references are not followed.
NoLinks == tree_of = EmptyNodes /\ tree_of_deleted = EmptyNodes

\* No copy of the tree is made.
NoCopies ==
    /\ heap = EmptyNodes
    /\ origin = [root |-> None, at |-> EmptyNodes]
    /\ copied = [root |-> None, at |-> EmptyNodes, deepcopy |-> FALSE]
    /\ edits = 0

Init ==
    /\ nodes = EmptyNodes
    /\ root = None
    /\ before = EmptyTree
    /\ call = Call("Tree", None, None)
    /\ exc = "ok"
    /\ ret = None
    /\ subtree = EmptyTree
    /\ stray = 0
    /\ NoCopies
    /\ NoLinks

CreateNode ==
    /\ Follow
    /\ \E id \in Ids, pid \in IdsOrNone :
        Becomes(Call("create_node", id, pid),
                create_node(Self, None, id, pid))

RemoveNode ==
    /\ Follow
    /\ \E id \in IdsOrNone :
        Becomes(Call("remove_node", id, None), remove_node(Self, id))

RemoveSubtree ==
    /\ Follow
    /\ \E id \in IdsOrNone :
        Becomes(Call("remove_subtree", id, None),
                remove_subtree(Self, id))

LinkPastNode ==
    /\ Follow
    /\ \E id \in IdsOrNone :
        Becomes(Call("link_past_node", id, None),
                link_past_node(Self, id))

MoveNode ==
    /\ Follow
    /\ \E source \in Ids, destination \in Ids :
        Becomes(Call("move_node", source, destination),
                move_node(Self, source, destination))

\* paste(id, new_tree), deepcopy left at its default, of a tree built on
\* the side or of the tree remove_subtree has just returned
Paste ==
    /\ Follow
    /\ \E id \in IdsOrNone, new_tree \in OtherTrees \cup {subtree} :
        Becomes(Call("paste", id, None),
                paste(Self, id, new_tree, FALSE))

Next ==
    \/ CreateNode
    \/ RemoveNode
    \/ RemoveSubtree
    \/ LinkPastNode
    \/ MoveNode
    \/ Paste

Spec == Init /\ [][Next]_vars

---------------------------------------------------------------------------
\* The queries: one read-only call on a tree that create_node has built.
\* A query leaves the tree as it is, so the calls that could follow it are
\* those that could follow the state it was made in; they are not followed
\* again.

\* The trees built with at most k calls create_node(id=..., parent=...,
\* expanded=...).
RECURSIVE Grown(_)
Grown(k) ==
    IF k = 0 THEN {EmptyTree}
    ELSE LET prev == Grown(k - 1)
         IN  prev \cup
             {add_node(o, id, [Node(None, id) EXCEPT !.expanded = e], pid).tree :
                  o \in prev, id \in Ids, pid \in IdsOrNone, e \in BOOLEAN}

QueriedTrees == Grown(NumIds)

\* The filters the callers pass: none, or one that a single id fails.
Filters == {NoFilter} \cup {Ids \ {x} : x \in Ids}

Modes == {"depth", "width", "zigzag"}

\* The sort keys the callers pass: none, or lambda node: node.id.
Keys == {"None", "id"}

QInit ==
    /\ \E t \in QueriedTrees : nodes = t.nodes /\ root = t.root
    /\ before = EmptyTree
    /\ call = Call("Tree", None, None)
    /\ exc = "ok"
    /\ ret = None
    /\ subtree = EmptyTree
    /\ stray = 0
    /\ NoCopies
    /\ NoLinks

\* No query has been made on the tree yet.
Fresh == call.op = "Tree"

\* The query returns r or raises e, and the tree is as it was.
Answers(c, e, r) ==
    /\ e # "diverge"
    /\ call' = c
    /\ exc' = e
    /\ ret' = r
    /\ before' = Self
    /\ UNCHANGED <<nodes, root, subtree, stray, copies, links>>

\* list(expand_tree(id, mode, filtering, key, reverse))
ExpandTree ==
    /\ Fresh
    /\ \E id \in IdsOrNone, mode \in Modes, filtering \in Filters,
          key \in Keys, reverse \in BOOLEAN :
        LET w == Walk(mode, filtering, key, reverse)
            r == expand_tree(Self, id, w)
        IN  Answers(Call("expand_tree", id, w), r.exc, r.out)

\* level(id)
Level ==
    /\ Fresh
    /\ \E id \in Ids :
        LET r == level(Self, id, NoFilter)
        IN  Answers(Call("level", id, None), r.exc, r.val)

\* depth() and depth(id)
Depth ==
    /\ Fresh
    /\ \E id \in IdsOrNone :
        LET r == depth(Self, id)
        IN  Answers(Call("depth", id, None), r.exc, r.val)

\* The sort keys the callers pass to to_dict: those of expand_tree, and
\* lambda node: -node.id, which orders the nodes against their tags.
DictKeys == Keys \cup {"-id"}

\* to_dict(id, key, sort, reverse, with_data)
ToDict ==
    /\ Fresh
    /\ \E id \in IdsOrNone, key \in DictKeys, sort \in BOOLEAN,
          reverse \in BOOLEAN, with_data \in BOOLEAN :
        LET r == to_dict(Self, id, key, sort, reverse, with_data, DictFuel)
        IN  Answers(Call("to_dict", id,
                         [key |-> key, sort |-> sort, reverse |-> reverse,
                          with_data |-> with_data]),
                    r.exc, r.val)

\* the (prefix, node) pairs of print_tree(tree, id, filtering=..., key=...,
\* reverse=...)
PrintTree ==
    /\ Fresh
    /\ \E id \in IdsOrNone, filtering \in Filters, key \in Keys,
          reverse \in BOOLEAN :
        LET w == Walk("depth", filtering, key, reverse)
            r == tree_printer_gen(Self, id, w, <<>>, 0, DictFuel)
        IN  Answers(Call("print_tree", id, w), r.exc, r.out)

\* The levels the callers pass to size(): none, the levels a tree of NumIds
\* nodes can have, the one above them, and a negative one.
Levels == {None, -2} \cup (0 .. NumIds)

\* size() and size(level)
Size ==
    /\ Fresh
    /\ \E lvl \in Levels :
        LET r == size_level(Self, lvl)
        IN  Answers(Call("size", lvl, None), r.exc, r.val)

QNext ==
    \/ ExpandTree
    \/ Level
    \/ Depth
    \/ ToDict
    \/ PrintTree
    \/ Size

QSpec == QInit /\ [][QNext]_vars

---------------------------------------------------------------------------
\* The back references: every call that stores a node in a Tree goes through
\* Tree.__setitem__, which points the node's _tree at that Tree, and every
\* `del self[id]` goes through Tree.__delitem__, which sets it to None.
\* The tree the calls are made on is "self"; a Tree that subtree() returns
\* is "other".

\* Largest tree whose back references are followed.
MaxLinked == 3

\* self[key] = node, for the keys stored
setitem(tf, stored, owner) ==
    [i \in (DOMAIN tf) \cup stored |-> IF i \in stored THEN owner ELSE tf[i]]

\* del self[key], for the keys deleted: what the nodes deleted report
delitem(deleted) == [i \in deleted |-> None]

LInit ==
    /\ nodes = EmptyNodes
    /\ root = None
    /\ before = EmptyTree
    /\ call = Call("Tree", None, None)
    /\ exc = "ok"
    /\ ret = None
    /\ subtree = EmptyTree
    /\ stray = 0
    /\ NoCopies
    /\ NoLinks

\* The call returns or raises, and leaves the tree as the outcome says; the
\* nodes it added were stored in the tree, those it removed were deleted
\* from it, and those in `stored` were stored in another Tree.
Linked(c, o, stored) ==
    /\ o.exc # "diverge"
    /\ Bounded(o.tree)
    /\ nodes' = o.tree.nodes
    /\ root' = o.tree.root
    /\ before' = Self
    /\ call' = c
    /\ exc' = o.exc
    /\ ret' = o.ret
    /\ subtree' = o.subtree
    /\ tree_of' =
          LET kept == [i \in (DOMAIN nodes) \cap (DOMAIN o.tree.nodes)
                          |-> tree_of[i]]
              added == (DOMAIN o.tree.nodes) \ (DOMAIN nodes)
          IN  setitem(setitem(kept, added, "self"), stored, "other")
    /\ tree_of_deleted' = delitem((DOMAIN nodes) \ (DOMAIN o.tree.nodes))
    /\ UNCHANGED copies

\* create_node(id=..., parent=...), on a tree that has room for a node
LCreateNode ==
    /\ Follow
    /\ Cardinality(DOMAIN nodes) < MaxLinked
    /\ \E id \in Ids, pid \in IdsOrNone :
        Linked(Call("create_node", id, pid),
               create_node(Self, None, id, pid), {})

LRemoveNode ==
    /\ Follow
    /\ \E id \in IdsOrNone :
        Linked(Call("remove_node", id, None), remove_node(Self, id), {})

LLinkPastNode ==
    /\ Follow
    /\ \E id \in IdsOrNone :
        Linked(Call("link_past_node", id, None),
               link_past_node(Self, id), {})

LMoveNode ==
    /\ Follow
    /\ \E source \in Ids, destination \in Ids :
        Linked(Call("move_node", source, destination),
               move_node(Self, source, destination), {})

\* subtree(id), called while no Tree returned by an earlier subtree() call
\* holds a node of the tree (the callers keep one such Tree at a time)
Subtree ==
    /\ Follow
    /\ \A n \in DOMAIN nodes : tree_of[n] = "self"
    /\ \E id \in IdsOrNone :
        Linked(Call("subtree", id, None), subtree_of(Self, id),
               subtree_stored(Self, id))

LNext ==
    \/ LCreateNode
    \/ LRemoveNode
    \/ LLinkPastNode
    \/ LMoveNode
    \/ Subtree

LinkSpec == LInit /\ [][LNext]_vars

---------------------------------------------------------------------------
\* The zigzag walks: expand_tree in mode ZIGZAG on trees wide and deep enough
\* to have several levels of more than one node.

\* Largest tree that is walked in mode ZIGZAG; the walk takes one turn of
\* its loop for each node but the start, fewer than ExpandFuel.
MaxWide == 7

WideIds == 0 .. (MaxWide - 1)

\* The trees of k nodes built with create_node calls whose ids go up from 0
\* (the children lists are in ascending order) or down from MaxWide - 1 (in
\* descending order), each node under any of the nodes before it.
RECURSIVE Wide(_, _)
Wide(k, up) ==
    IF k = 0 THEN {EmptyTree}
    ELSE LET id == IF up THEN k - 1 ELSE MaxWide - k
             earlier == IF k = 1 THEN {None}
                        ELSE IF up THEN 0 .. (k - 2)
                        ELSE (MaxWide - k + 1) .. (MaxWide - 1)
         IN  {create_node(o, None, id, pid).tree :
                  o \in Wide(k - 1, up), pid \in earlier}

WideTrees == UNION {Wide(k, up) : k \in 0 .. MaxWide, up \in BOOLEAN}

\* The filters the callers pass: one that no id fails, or that one id fails.
WideFilters == {WideIds} \cup {WideIds \ {x} : x \in WideIds}

ZInit ==
    /\ \E t \in WideTrees : nodes = t.nodes /\ root = t.root
    /\ before = EmptyTree
    /\ call = Call("Tree", None, None)
    /\ exc = "ok"
    /\ ret = None
    /\ subtree = EmptyTree
    /\ stray = 0
    /\ NoCopies
    /\ NoLinks

\* list(expand_tree(id, mode=ZIGZAG, filtering=...))
Zigzag ==
    /\ Fresh
    /\ \E id \in WideIds \cup {None}, filtering \in WideFilters :
        LET w == Walk("zigzag", filtering, "None", FALSE)
            r == expand_tree(Self, id, w)
        IN  Answers(Call("expand_tree", id, w), r.exc, r.out)

ZNext == Zigzag

ZSpec == ZInit /\ [][ZNext]_vars

---------------------------------------------------------------------------
\* The copies: Tree(tree, deepcopy) and assignments to the nodes of the
\* copy.  A Tree maps an id to a Node object; two trees that map an id to
\* the same object see each other's assignments to it.  The objects are in
\* heap, by address, and a tree is its root and its references id -> address.
\* (The back reference Node._tree, which __setitem__ points at the tree the
\* node was last stored in, is no part of Node in this model.)

\* Largest tree that is copied.
MaxCopied == 3
\* Number of assignments made to the nodes of the copy.
MaxEdits == 2

CopiedTrees == Grown(MaxCopied)

\* The tree that the references tr denote in heap h.
View(h, tr) == Tree(tr.root, [i \in DOMAIN tr.at |-> h[tr.at[i]]])

\* The address of a new object.
NewAddr(h) ==
    CHOOSE a \in 0 .. Cardinality(DOMAIN h) :
        a \notin DOMAIN h /\ \A b \in 0 .. (a - 1) : b \in DOMAIN h

\* for node_id in other: self[node_id] = copy.deepcopy(other[node_id])
\* (todo: the ids of other not yet reached, taken in ascending order)
RECURSIVE deepcopy_loop(_, _, _, _)
deepcopy_loop(h, at, other_at, todo) ==
    IF todo = {} THEN [heap |-> h, at |-> at]
    ELSE LET node_id == CHOOSE i \in todo : \A j \in todo : i <= j
             a == NewAddr(h)
         IN  deepcopy_loop(Put(h, a, h[other_at[node_id]]),
                           Put(at, node_id, a), other_at, todo \ {node_id})

\* __merge_tree that takes over the objects of other, deepcopy or not
merge_tree_shared(h, at, other_at, deepcopy) ==
    [heap |-> h, at |-> Update(at, other_at)]

\* __merge_tree(other, deepcopy), on objects
merge_tree_objects(h, at, other_at, deepcopy) ==
    IF deepcopy
    THEN deepcopy_loop(h, at, other_at, DOMAIN other_at)
    ELSE [heap |-> h, at |-> Update(at, other_at)]

\* Tree(tree, deepcopy), tree not None
Tree_init(h, tree, deepcopy) ==
    LET m == merge_tree_objects(h, EmptyNodes, tree.at, deepcopy)
    IN  [heap |-> m.heap, root |-> tree.root, at |-> m.at]

CInit ==
    /\ \E t \in CopiedTrees :
          /\ nodes = t.nodes
          /\ root = t.root
          /\ heap = t.nodes
          /\ origin = [root |-> t.root, at |-> [i \in DOMAIN t.nodes |-> i]]
    /\ copied = [root |-> None, at |-> EmptyNodes, deepcopy |-> FALSE]
    /\ edits = 0
    /\ before = EmptyTree
    /\ call = Call("Tree", None, None)
    /\ exc = "ok"
    /\ ret = None
    /\ subtree = EmptyTree
    /\ stray = 0
    /\ NoLinks

\* copied = Tree(tree, deepcopy)
CopyTree ==
    /\ call.op = "Tree"
    /\ \E deepcopy \in BOOLEAN :
        LET r == Tree_init(heap, origin, deepcopy)
        IN  /\ heap' = r.heap
            /\ copied' = [root |-> r.root, at |-> r.at, deepcopy |-> deepcopy]
            /\ call' = Call("__init__", None, deepcopy)
    /\ nodes' = View(heap', origin).nodes
    /\ before' = Self
    /\ exc' = "ok"
    /\ ret' = None
    /\ UNCHANGED <<root, subtree, stray, origin, edits, links>>

\* An assignment to the node id of the copy leaves h as the heap; the tree
\* is what its references now denote.
Edit(c, h) ==
    /\ heap' = h
    /\ nodes' = View(h, origin).nodes
    /\ before' = Self
    /\ call' = c
    /\ exc' = "ok"
    /\ ret' = None
    /\ edits' = edits + 1
    /\ UNCHANGED <<root, subtree, stray, origin, copied, links>>

Editable == call.op # "Tree" /\ edits < MaxEdits

\* copied[id].tag = value
SetTag ==
    /\ Editable
    /\ \E id \in DOMAIN copied.at, value \in Ids :
        Edit(Call("tag", id, value),
             [heap EXCEPT ![copied.at[id]].tag = value])

\* copied[id].parent = node_id
SetParent ==
    /\ Editable
    /\ \E id \in DOMAIN copied.at, node_id \in IdsOrNone :
        Edit(Call("parent", id, node_id),
             [heap EXCEPT ![copied.at[id]].parent = node_id])

\* copied[id].add_child(node_id)
AddChild ==
    /\ Editable
    /\ \E id \in DOMAIN copied.at, node_id \in IdsOrNone :
        Edit(Call("add_child", id, node_id),
             [heap EXCEPT ![copied.at[id]] = add_child(@, node_id)])

\* copied[id].remove_child(node_id)
RemoveChild ==
    /\ Editable
    /\ \E id \in DOMAIN copied.at, node_id \in IdsOrNone :
        Edit(Call("remove_child", id, node_id),
             [heap EXCEPT ![copied.at[id]] = remove_child(@, node_id)])

CNext ==
    \/ CopyTree
    \/ SetTag
    \/ SetParent
    \/ AddChild
    \/ RemoveChild

CopySpec == CInit /\ [][CNext]_vars

---------------------------------------------------------------------------
\* What the claims speak of.

\* the last call was op
Did(op) == call.op = op

\* the last call was made on a tree that held the data model's invariants
OnSound == WellFormed(before)

\* the ids of the subtree rooted at id: the nodes whose walk up the parent
\* links passes id
SubtreeIds(t, id) == {n \in DOMAIN t.nodes : id \in Chain(t, n, NumIds)}

\* the walk up the parent links from n reaches the root, no node twice
RECURSIVE ReachesRoot(_, _, _)
ReachesRoot(t, n, seen) ==
    IF n = t.root THEN Has(t, n)
    ELSE IF n = None \/ ~Has(t, n) \/ n \in seen THEN FALSE
    ELSE ReachesRoot(t, t.nodes[n].parent, seen \cup {n})

Acyclic(t) ==
    \A n \in DOMAIN t.nodes :
        /\ ReachesRoot(t, n, {})
        /\ t.nodes[n].parent # n
        /\ n \notin Range(t.nodes[n].children)

\* the nodes of t without a parent
Parentless(t) == {n \in DOMAIN t.nodes : t.nodes[n].parent = None}

\* C1: after any sequence of calls, every node but the root has a parent
\* that is in the tree and lists it exactly once, and no children list
\* repeats an id or names an id that is not in the tree.
C1_ParentAndChildrenLinked ==
    \A n \in DOMAIN nodes :
        /\ n # root =>
              /\ nodes[n].parent \in DOMAIN nodes
              /\ Count(nodes[nodes[n].parent].children, n) = 1
        /\ NoDup(nodes[n].children)
        /\ Range(nodes[n].children) \subseteq DOMAIN nodes

\* C2: after any sequence of calls at most one node has parent None, and
\* in a tree that is not empty exactly one has, and it is tree.root.
C2_SingleParentlessRoot ==
    /\ Cardinality(Parentless(Self)) <= 1
    /\ DOMAIN nodes # {} => Parentless(Self) = {root}

\* C3: a move_node(source, destination) that returns, source and
\* destination equal or not, leaves the parent/child relation acyclic.
C3_MoveKeepsAcyclic ==
    (Did("move_node") /\ exc = "ok" /\ OnSound) => Acyclic(Self)

\* C4: move_node(source, destination) raises LoopError whenever the walk up
\* from destination passes source, and then leaves nodes, root and every
\* parent and children list as they were.
C4_LoopRejectedUnchanged ==
    (/\ Did("move_node")
     /\ Has(before, call.a) /\ Has(before, call.b)
     /\ call.a \in Chain(before, before.nodes[call.b].parent, NumIds))
    => (exc = "LoopError" /\ Self = before)

\* C4's case: on a sound tree of NumIds nodes a node that is not the root
\* was to move under a descendant that is not its child.
C4_Witness ==
    /\ Did("move_node") /\ exc = "LoopError" /\ OnSound
    /\ Cardinality(DOMAIN nodes) = NumIds
    /\ call.a # root
    /\ nodes[call.b].parent # call.a

\* C5: remove_node(id) of an id in the tree, whatever its value, returns
\* the size of the subtree at id, removes exactly those nodes, leaves every
\* other node as it was and takes id out of its former parent's children.
C5_RemoveNodeExact ==
    (Did("remove_node") /\ OnSound /\ Has(before, call.a)) =>
        LET gone == SubtreeIds(before, call.a)
            p == before.nodes[call.a].parent
        IN  /\ exc = "ok"
            /\ ret = Cardinality(gone)
            /\ DOMAIN nodes = (DOMAIN before.nodes) \ gone
            /\ root \in {before.root, None}
            /\ \A n \in DOMAIN nodes :
                  /\ n # p => nodes[n] = before.nodes[n]
                  /\ n = p =>
                        /\ call.a \notin Range(nodes[n].children)
                        /\ nodes[n] = [before.nodes[n] EXCEPT
                                !.children = RemoveFirst(@, call.a)]

\* C6: remove_node(root) leaves the tree empty and tree.root None.
C6_RemoveRootClearsRoot ==
    (/\ Did("remove_node") /\ OnSound
     /\ before.root # None /\ call.a = before.root)
    => (exc = "ok" /\ DOMAIN nodes = {} /\ root = None)

\* C7: remove_subtree(root) returns, with a tree that holds every node of
\* the original and has that root, and leaves the original empty.
C7_RemoveSubtreeOfRootReturns ==
    (/\ Did("remove_subtree") /\ OnSound
     /\ before.root # None /\ call.a = before.root)
    => /\ exc = "ok"
       /\ subtree.root = call.a
       /\ DOMAIN subtree.nodes = DOMAIN before.nodes
       /\ DOMAIN nodes = {}

\* what remove_subtree(id) of an id that is not the root has to bring about:
\* the tree returned is exactly the subtree at id, rooted at id, id's parent
\* None and every other link of the subtree kept; the original loses exactly
\* those nodes, keeps the others as they were, and id leaves its former
\* parent's children
RemoveSubtreeExact ==
    LET id == call.a
        gone == SubtreeIds(before, id)
        p == before.nodes[id].parent
    IN  /\ exc = "ok"
        /\ subtree.root = id
        /\ DOMAIN subtree.nodes = gone
        /\ subtree.nodes[id] = [before.nodes[id] EXCEPT !.parent = None]
        /\ \A n \in gone \ {id} : subtree.nodes[n] = before.nodes[n]
        /\ root = before.root
        /\ DOMAIN nodes = (DOMAIN before.nodes) \ gone
        /\ \A n \in (DOMAIN nodes) \ {p} : nodes[n] = before.nodes[n]
        /\ p \in DOMAIN nodes
        /\ id \notin Range(nodes[p].children)
        /\ nodes[p] = [before.nodes[p] EXCEPT
                          !.children = RemoveFirst(@, id)]

\* C8: remove_subtree(id) of an id in the tree that is not the root returns
\* a tree of exactly the subtree at id, rooted at id, id's parent None and
\* every other link of the subtree kept; the original loses exactly those
\* nodes, keeps the others as they were, and id leaves its former parent's
\* children.
C8_RemoveSubtreeExact ==
    (/\ Did("remove_subtree")
     /\ Has(before, call.a) /\ call.a # before.root) => RemoveSubtreeExact

\* remove_subtree does so on every tree that held the data model's
\* invariants when the call was made.
RemoveSubtreeExactOnSound ==
    (/\ Did("remove_subtree") /\ OnSound
     /\ Has(before, call.a) /\ call.a # before.root) => RemoveSubtreeExact

\* what link_past_node(id) of an id that is not the root has to bring about:
\* id alone is deleted; its former children get id's former parent as
\* parent and stand, in their order, at the end of that parent's children,
\* which no longer hold id; every other node is as it was
LinkPastExact ==
    LET id == call.a
        p == before.nodes[id].parent
        kids == before.nodes[id].children
    IN  /\ exc = "ok"
        /\ root = before.root
        /\ DOMAIN nodes = (DOMAIN before.nodes) \ {id}
        /\ \A c \in Range(kids) :
              /\ c \in DOMAIN nodes
              /\ nodes[c] = [before.nodes[c] EXCEPT !.parent = p]
        /\ p \in DOMAIN nodes
        /\ nodes[p] = [before.nodes[p] EXCEPT
                          !.children = RemoveFirst(@, id) \o kids]
        /\ id \notin Range(nodes[p].children)
        /\ \A n \in (DOMAIN nodes) \ (Range(kids) \cup {p}) :
              nodes[n] = before.nodes[n]

\* C9: link_past_node(id) of an id in the tree that is not the root deletes
\* id alone; the former children of id get id's former parent as parent
\* and stand, in their order, at the end of that parent's children, which
\* no longer hold id; every other parent and children list is unchanged.
C9_LinkPastExact ==
    (/\ Did("link_past_node")
     /\ Has(before, call.a) /\ call.a # before.root) => LinkPastExact

\* link_past_node does so on every tree that held the data model's
\* invariants when the call was made.
LinkPastExactOnSound ==
    (/\ Did("link_past_node") /\ OnSound
     /\ Has(before, call.a) /\ call.a # before.root) => LinkPastExact

\* C10: add_node raises DuplicatedNode for an id already in the tree,
\* otherwise MultipleRoots when no parent is given and the tree has a
\* root, otherwise NodeNotFound when the parent given is not in the tree;
\* in each case nodes, root and every parent and children list are unchanged.
C10_AddNodeErrorsUnchanged ==
    Did("create_node") =>
        LET duplicated == Has(before, call.a)
            second_root == call.b = None /\ before.root # None
            no_parent == call.b # None /\ ~Has(before, call.b)
        IN  /\ duplicated => exc = "DuplicatedNode"
            /\ (~duplicated /\ second_root) => exc = "MultipleRoots"
            /\ (~duplicated /\ no_parent) => exc = "NodeNotFound"
            /\ (duplicated \/ second_root \/ no_parent) => Self = before

\* C10's case: a second root was refused on a sound tree of two nodes or
\* more; its id was new.
C10_Witness ==
    /\ Did("create_node") /\ exc = "MultipleRoots" /\ OnSound
    /\ ~Has(before, call.a)
    /\ Cardinality(DOMAIN nodes) >= 2

\* the trees a caller has at hand to paste
Pasted == OtherTrees \cup {subtree}

\* other holds nodes, none of an id the tree holds
Pastable(other) ==
    /\ DOMAIN other.nodes # {}
    /\ other.root \in DOMAIN other.nodes
    /\ (DOMAIN other.nodes) \cap (DOMAIN nodes) = {}

\* C11: in every state the calls reach, paste(id, other) of an id in the
\* tree and a tree other that is not empty and shares no id with it returns;
\* the node set becomes the union of both, other's root is appended as the
\* last child of id and gets id as parent, every other parent and children
\* list of either tree is kept, root is kept, and the size is the sum of
\* the two sizes.
C11_PasteExact ==
    \A id \in DOMAIN nodes, other \in Pasted :
        Pastable(other) =>
            LET o == paste(Self, id, other, FALSE)
                after == o.tree.nodes
            IN  /\ o.exc = "ok"
                /\ o.tree.root = root
                /\ DOMAIN after = (DOMAIN nodes) \cup (DOMAIN other.nodes)
                /\ Cardinality(DOMAIN after) =
                      Cardinality(DOMAIN nodes) + Cardinality(DOMAIN other.nodes)
                /\ after[id] = [nodes[id] EXCEPT
                                    !.children = Append(@, other.root)]
                /\ after[other.root] = [other.nodes[other.root] EXCEPT
                                            !.parent = id]
                /\ \A n \in (DOMAIN nodes) \ {id} : after[n] = nodes[n]
                /\ \A n \in (DOMAIN other.nodes) \ {other.root} :
                      after[n] = other.nodes[n]

\* C11's case: a tree of two nodes or more was pasted under a node that
\* had a child already.
C11_Witness ==
    /\ Did("paste") /\ exc = "ok" /\ OnSound
    /\ Cardinality(DOMAIN nodes) >= Cardinality(DOMAIN before.nodes) + 2
    /\ Len(before.nodes[call.a].children) >= 1

\* C12: in every state the calls reach, paste(id, other) raises NodeNotFound
\* for an id that is not in the tree and otherwise ValueError when other
\* holds an id the tree holds; either way the tree is left as it was.
C12_PasteErrorsUnchanged ==
    \A id \in Ids, other \in Pasted :
        LET o == paste(Self, id, other, FALSE)
            collide == (DOMAIN other.nodes) \cap (DOMAIN nodes) # {}
        IN  /\ ~Has(Self, id) => (o.exc = "NodeNotFound" /\ o.tree = Self)
            /\ (Has(Self, id) /\ collide) =>
                  (o.exc = "ValueError" /\ o.tree = Self)

\* C12's case: a paste under a node of the tree was refused for an id that
\* both trees hold, on a tree of two nodes or more.
C12_Witness ==
    /\ Did("paste") /\ exc = "ValueError" /\ OnSound
    /\ call.a \in DOMAIN nodes
    /\ Cardinality(DOMAIN nodes) >= 2

\* C13: a call of create_node, remove_node, remove_subtree, link_past_node,
\* move_node or paste that raises leaves nodes, root and every parent and
\* children list as the call found them.
C13_FailureLeavesTreeUnchanged ==
    exc # "ok" => Self = before

\* the node expand_tree(call.a, ...) starts at
Start == IF call.a = None THEN root ELSE call.a

\* the ids of ret that are in the set S, in the order of ret
Among(S) == SelectSeq(ret, LAMBDA i : i \in S)

\* the nodes on the way down from start to n, both included
PathFrom(t, start, n) ==
    {m \in Chain(t, n, NumIds) : start \in Chain(t, m, NumIds)}

\* C14: on a tree built with create_node, expand_tree started at the root
\* with no filter returns, in each of the modes depth, width and zigzag,
\* and yields every id of the tree exactly once: as many ids as size().
C14_ExpandTreeVisitsAllOnce ==
    (/\ Did("expand_tree") /\ root # None /\ Start = root
     /\ call.b.filtering = NoFilter)
    => /\ exc = "ok"
       /\ Range(ret) = DOMAIN nodes
       /\ \A n \in DOMAIN nodes : Count(ret, n) = 1
       /\ Len(ret) = size(Self)

\* C14's case: a zigzag walk over a tree of NumIds nodes whose root has two
\* children, one of them with a child.
C14_Witness ==
    /\ Did("expand_tree") /\ exc = "ok" /\ call.b.mode = "zigzag"
    /\ call.b.filtering = NoFilter /\ call.a = None
    /\ Len(ret) = NumIds
    /\ Len(nodes[root].children) = 2
    /\ \E c \in Range(nodes[root].children) : nodes[c].children # <<>>

\* C15: expand_tree, in every mode and with or without a filter, yields no
\* child of a node whose expanded flag is false: every id yielded but the
\* start has a parent that is expanded.
C15_CollapsedNotDescended ==
    (Did("expand_tree") /\ exc = "ok") =>
        \A n \in Range(ret) \ {Start} : nodes[nodes[n].parent].expanded

\* C16: with a filter, expand_tree from a start node in the tree yields, in
\* every mode, exactly the nodes of the start's subtree such that every node
\* on the way from the start to them, both included, passes the filter, each
\* once; nothing when the start fails it.
C16_FilterPrunes ==
    (/\ Did("expand_tree") /\ Has(Self, Start)
     /\ call.b.filtering # NoFilter)
    => /\ exc = "ok"
       /\ Range(ret) =
             {n \in SubtreeIds(Self, Start) :
                 PathFrom(Self, Start, n) \subseteq call.b.filtering}
       /\ \A n \in Range(ret) : Count(ret, n) = 1
       /\ Start \notin call.b.filtering => ret = <<>>

\* C16's case: the filter failed a node below the start that has children,
\* and the walk yielded other nodes.
C16_Witness ==
    /\ Did("expand_tree") /\ exc = "ok" /\ call.b.filtering # NoFilter
    /\ Has(Self, Start) /\ Len(ret) >= 2
    /\ \E x \in SubtreeIds(Self, Start) \ call.b.filtering :
          x # Start /\ nodes[x].children # <<>>

\* C17: expand_tree visits the children of a node in the order of its
\* children list when no key is given and reverse is not set, in the reverse
\* of that order when no key is given and reverse is set, and sorted by the
\* key (descending if reverse) when a key is given.
C17_SiblingOrder ==
    (Did("expand_tree") /\ exc = "ok" /\ call.b.filtering = NoFilter) =>
        \A p \in Range(ret) :
            LET kids == nodes[p].children
            IN  Among(Range(kids)) =
                    IF call.b.key # "None" THEN Sorted(Self, call.b, kids)
                    ELSE IF call.b.reverse THEN Reverse(kids)
                    ELSE kids

\* the number of proper ancestors of n
Ancestors(t, n) == Cardinality(Chain(t, n, NumIds)) - 1

\* C18: on a tree built with create_node, level(n) of a node of the tree is
\* len(list(rsearch(n))) - 1, the number of its proper ancestors, 0 for the
\* root; depth() is the greatest level of a leaf, which is the greatest
\* level of a node; depth(n) is level(n).
C18_LevelAndDepth ==
    /\ (Did("level") /\ Has(Self, call.a)) =>
          /\ exc = "ok"
          /\ ret = Len(rsearch(Self, call.a, NoFilter).out) - 1
          /\ ret = Ancestors(Self, call.a)
          /\ call.a = root => ret = 0
    /\ (Did("depth") /\ call.a = None /\ root # None) =>
          /\ exc = "ok"
          /\ ret = Max({Ancestors(Self, l) : l \in leaves(Self)})
          /\ ret = Max({Ancestors(Self, n) : n \in DOMAIN nodes})
    /\ (Did("depth") /\ call.a # None /\ Has(Self, call.a)) =>
          /\ exc = "ok"
          /\ ret = level(Self, call.a, NoFilter).val
          /\ ret = Ancestors(Self, call.a)

\* C18's case: depth() of a tree whose deepest leaf is two levels or more
\* down and which has a leaf higher up.
C18_Witness ==
    /\ Did("depth") /\ call.a = None /\ exc = "ok"
    /\ ret >= 2
    /\ \E l \in leaves(Self) : Ancestors(Self, l) < ret

\* The copy, as a tree.
Copy == View(heap, copied)

\* C19: Tree(t, deepcopy=True) has the ids, the root, the parent links and
\* the children lists of t, and no later assignment to the tag, the parent
\* or the children of a node of the copy changes t; the nodes of Tree(t)
\* are those of t, so that a tag assigned to a node of the copy is the tag
\* of that node of t.
C19_DeepCopyIndependent ==
    /\ Did("__init__") /\ copied.deepcopy =>
          /\ DOMAIN Copy.nodes = DOMAIN before.nodes
          /\ Copy.root = before.root
          /\ \A i \in DOMAIN before.nodes :
                /\ Copy.nodes[i].parent = before.nodes[i].parent
                /\ Copy.nodes[i].children = before.nodes[i].children
    /\ call.op \in {"tag", "parent", "add_child", "remove_child"}
       /\ copied.deepcopy => Self = before
    /\ Did("tag") /\ ~copied.deepcopy =>
          /\ nodes[call.a].tag = call.b
          /\ Copy = Self

\* A tag that the node did not have is assigned to it through a shallow copy.
SharedTagAssigned ==
    ~copied.deepcopy /\ Did("tag") /\ before.nodes[call.a].tag # call.b

\* A second assignment to a node of a deep copy of a tree of three nodes,
\* after which the copy differs from the tree in the parent and in the
\* children of a node.
C19_Witness ==
    /\ copied.deepcopy
    /\ Did("add_child")
    /\ edits = MaxEdits
    /\ Cardinality(DOMAIN nodes) = MaxCopied
    /\ \E i \in DOMAIN nodes :
          /\ Copy.nodes[i].parent # nodes[i].parent
          /\ Copy.nodes[i].children # nodes[i].children
          /\ Len(nodes[i].children) = 2

\* C20: to_dict(n) gives a node without children, and a node whose expanded
\* flag is false whatever children it has, as a leaf, the bare tag or
\* {tag: {data: ...}} without a children key; only an expanded node with a
\* child is a mapping with a children list, which is not empty.
C20_ToDictLeaves ==
    (Did("to_dict") /\ exc = "ok") =>
        LET node == nodes[Start]
        IN  IF node.children = <<>> \/ ~node.expanded
            THEN ret = (IF call.b.with_data THEN TagData(node.tag)
                        ELSE BareTag(node.tag))
            ELSE "children" \in DOMAIN ret /\ ret.children # <<>>

\* where the renderer's line for n is
LineOf(n) == CHOOSE k \in 1 .. Len(ret) : ret[k].node = n

\* n is the last rendered child of its parent: no later line is for a node
\* with the same parent
LastRendered(n) ==
    \A k \in 1 .. Len(ret) :
        k > LineOf(n) => nodes[ret[k].node].parent # nodes[n].parent

\* depth of n below the start node
Below(n) == Cardinality(PathFrom(Self, Start, n)) - 1

\* the ancestor of n that is i levels below the start node
AncestorAt(n, i) == CHOOSE m \in PathFrom(Self, Start, n) : Below(m) = i

\* C21: the renderer yields the start node with an empty prefix; every other
\* node it yields, d levels below the start, has a prefix of d segments: for
\* each ancestor at levels 1..d-1 the vertical line if that ancestor is not
\* the last rendered child of its parent and blanks if it is, then the corner
\* if the node is the last rendered child of its parent and the branch if
\* not.  The lines are in pre-order: each node once, after its parent, the
\* lines of the nodes below it following it in one block.
C21_RenderedPrefixes ==
    (Did("print_tree") /\ exc = "ok") =>
        /\ ret[1] = [pre |-> <<>>, node |-> Start]
        /\ \A j, k \in 1 .. Len(ret) : ret[j].node = ret[k].node => j = k
        /\ \A k \in 2 .. Len(ret) :
              LET n == ret[k].node
                  d == Below(n)
              IN  /\ d >= 1
                  /\ ret[k].pre =
                        [i \in 1 .. d |->
                            IF i < d
                            THEN (IF LastRendered(AncestorAt(n, i))
                                  THEN "blank" ELSE "line")
                            ELSE (IF LastRendered(n)
                                  THEN "corner" ELSE "branch")]
                  /\ \E j \in 1 .. (k - 1) : ret[j].node = nodes[n].parent
        /\ \A i, j, k \in 1 .. Len(ret) :
              (i < j /\ j < k
               /\ ret[i].node \in Chain(Self, ret[k].node, NumIds))
              => ret[i].node \in Chain(Self, ret[j].node, NumIds)

\* C21's case: a rendering of NumIds lines with a node under a vertical line
\* and a later child of the start.
C21_Witness ==
    /\ Did("print_tree") /\ exc = "ok" /\ Len(ret) = NumIds
    /\ \E k \in 1 .. Len(ret) : ret[k].pre = <<"line", "corner">>
    /\ ret[Len(ret)].pre = <<"corner">>

\* the nodes of the renderer's lines, in their order
RenderedNodes == [k \in 1 .. Len(ret) |-> ret[k].node]

\* C22: for a tree all of whose nodes are expanded, with no filter, the nodes
\* of the renderer's lines are, in that order, the ids that expand_tree in
\* mode DEPTH yields for the same start node, key and reverse (a key given or
\* not).
C22_RendererFollowsDepthWalk ==
    (/\ Did("print_tree") /\ exc = "ok"
     /\ call.b.filtering = NoFilter
     /\ \A n \in DOMAIN nodes : nodes[n].expanded)
    => RenderedNodes = expand_tree(Self, call.a, call.b).out

\* C22 where a key is given: the renderer and expand_tree both use
\* sorted(children, key=key, reverse=reverse).
RendererFollowsDepthWalkWithKey ==
    (/\ Did("print_tree") /\ exc = "ok"
     /\ call.b.filtering = NoFilter /\ call.b.key # "None"
     /\ \A n \in DOMAIN nodes : nodes[n].expanded)
    => RenderedNodes = expand_tree(Self, call.a, call.b).out

\* The nodes below the start, the start included, that the filter and the
\* expanded flags leave visible: every node on the way from the start to
\* them passes the filter, and every one of those above them is expanded.
Visible ==
    {n \in SubtreeIds(Self, Start) :
        /\ PathFrom(Self, Start, n) \subseteq call.b.filtering
        /\ \A m \in PathFrom(Self, Start, n) \ {n} : nodes[m].expanded}

\* C30: with a filter, the renderer yields exactly the visible nodes, each
\* once; it yields nothing when the start node fails the filter.
C30_RendererFilters ==
    (/\ Did("print_tree") /\ exc = "ok"
     /\ call.b.filtering # NoFilter)
    => /\ Range(RenderedNodes) = Visible
       /\ Len(ret) = Cardinality(Visible)
       /\ Start \notin call.b.filtering => ret = <<>>

\* C30 for a start node that passes the filter.
RendererFiltersBelowStart ==
    (/\ Did("print_tree") /\ exc = "ok"
     /\ call.b.filtering # NoFilter /\ Start \in call.b.filtering)
    => /\ Range(RenderedNodes) = Visible
       /\ Len(ret) = Cardinality(Visible)

\* C24: size(level) with an integer level that is not between 0 and depth()
\* raises InvalidLevelNumber.
C24_SizeLevelChecked ==
    (/\ Did("size") /\ call.a # None
     /\ (call.a < 0 \/ call.a > depth(Self, None).val))
    => exc = "InvalidLevelNumber"

\* What size(level) does: it returns the number of nodes at that level,
\* which is 0 for a level that no node has.
SizeLevelCounts ==
    (Did("size") /\ call.a # None) =>
        /\ exc = "ok"
        /\ ret = Cardinality({n \in DOMAIN nodes : Ancestors(Self, n) = call.a})
        /\ (call.a < 0 \/ call.a > depth(Self, None).val) => ret = 0

\* where expand_tree yielded the id n
YieldOf(n) == CHOOSE k \in 1 .. Len(ret) : ret[k] = n

\* C25: expand_tree in mode DEPTH is a pre-order walk: every id yielded but
\* the start comes after its parent, and the ids yielded below a node follow
\* it in one block (a node between a node and one below it is below it too).
C25_DepthIsPreOrder ==
    (Did("expand_tree") /\ exc = "ok" /\ call.b.mode = "depth") =>
        /\ \A k \in 2 .. Len(ret) :
              \E j \in 1 .. (k - 1) : ret[j] = nodes[ret[k]].parent
        /\ \A i, j, k \in 1 .. Len(ret) :
              (i < j /\ j < k /\ ret[i] \in Chain(Self, ret[k], NumIds))
              => ret[i] \in Chain(Self, ret[j], NumIds)

\* C25's case: the walk leaves the first child's subtree, two levels deep,
\* before it yields the second child.
C25_Witness ==
    /\ Did("expand_tree") /\ exc = "ok" /\ call.b.mode = "depth"
    /\ Len(ret) = NumIds
    /\ nodes[ret[2]].parent = ret[1]
    /\ nodes[ret[3]].parent = ret[2]
    /\ nodes[ret[4]].parent = ret[1]

RECURSIVE ChildrenOf(_, _, _)
ChildrenOf(t, f, lv) ==
    IF lv = <<>> THEN <<>>
    ELSE SelectSeq(t.nodes[Head(lv)].children, LAMBDA i : i \in f)
         \o ChildrenOf(t, f, Tail(lv))

\* the level lv and the levels below it, one after the other, lv from left
\* to right if forward and from right to left if not, each level in the
\* direction opposite to that of the level above
RECURSIVE Boustrophedon(_, _, _, _)
Boustrophedon(t, f, lv, forward) ==
    IF lv = <<>> THEN <<>>
    ELSE (IF forward THEN lv ELSE Reverse(lv))
         \o Boustrophedon(t, f, ChildrenOf(t, f, lv), ~forward)

\* C27: expand_tree in mode ZIGZAG yields the nodes level by level, each
\* level in one block after the level above it, and walks each level in the
\* direction opposite to that of the level above, left to right being the
\* order of the children lists; this for every depth of tree.
C27_ZigzagAlternates ==
    (/\ Did("expand_tree") /\ exc = "ok" /\ call.b.mode = "zigzag"
     /\ Has(Self, Start) /\ Start \in call.b.filtering)
    => \E forward \in BOOLEAN :
          ret = Boustrophedon(Self, call.b.filtering, <<Start>>, forward)

\* C27's case: a tree of MaxWide nodes with two nodes on each of the three
\* levels below the root, walked from the root with no filter.
C27_Witness ==
    /\ Did("expand_tree") /\ exc = "ok" /\ call.b.mode = "zigzag"
    /\ call.a = None /\ call.b.filtering = WideIds
    /\ Len(ret) = MaxWide
    /\ LET l1 == ChildrenOf(Self, WideIds, <<root>>)
           l2 == ChildrenOf(Self, WideIds, l1)
           l3 == ChildrenOf(Self, WideIds, l2)
       IN  /\ Len(l1) = 2 /\ Len(l2) = 2 /\ Len(l3) = 2
           /\ ret = <<root>> \o Reverse(l1) \o l2 \o Reverse(l3)

\* The children of every node serialized in v with children are in the order
\* of sorted(children, key=w.key, reverse=w.reverse).  (The tag of a node of
\* the trees queried is its id.)
RECURSIVE ChildrenSortedIn(_, _)
ChildrenSortedIn(v, w) ==
    ("children" \in DOMAIN v /\ v.children # <<>>) =>
        /\ [i \in 1 .. Len(v.children) |-> v.children[i].tag]
              = Sorted(Self, w, nodes[v.tag].children)
        /\ \A i \in 1 .. Len(v.children) : ChildrenSortedIn(v.children[i], w)

\* C29: to_dict with a sort key orders by that key (and by reverse) the
\* children of every node it serializes, at every depth of the result.
C29_ToDictSortsEveryLevel ==
    (/\ Did("to_dict") /\ exc = "ok"
     /\ call.b.sort /\ call.b.key # "None")
    => ChildrenSortedIn(ret, Walk("depth", NoFilter, call.b.key,
                                  call.b.reverse))

\* What to_dict does: the key orders the children of the start node.
ToDictSortsStartChildren ==
    (/\ Did("to_dict") /\ exc = "ok"
     /\ call.b.sort /\ call.b.key # "None"
     /\ "children" \in DOMAIN ret /\ ret.children # <<>>)
    => [i \in 1 .. Len(ret.children) |-> ret.children[i].tag]
          = Sorted(Self, Walk("depth", NoFilter, call.b.key, call.b.reverse),
                   nodes[ret.tag].children)

\* what move_node(source, destination) has to bring about: source is taken
\* out of the children of its old parent and put at the end of those of
\* destination, and destination is its parent; the ids, the root and every
\* other node, those below source included, are as they were
MoveExact ==
    LET source == call.a
        destination == call.b
        p == before.nodes[source].parent
    IN  /\ exc = "ok"
        /\ root = before.root
        /\ DOMAIN nodes = DOMAIN before.nodes
        /\ nodes[source] = [before.nodes[source] EXCEPT !.parent = destination]
        /\ p \in DOMAIN nodes
        /\ p # destination =>
              /\ nodes[p] = [before.nodes[p] EXCEPT
                                !.children = RemoveFirst(@, source)]
              /\ source \notin Range(nodes[p].children)
        /\ nodes[destination] =
              [before.nodes[destination] EXCEPT
                  !.children =
                      Append(IF p = destination THEN RemoveFirst(@, source)
                             ELSE @, source)]
        /\ Count(nodes[destination].children, source) = 1
        /\ \A n \in (DOMAIN nodes) \ {source, p, destination} :
              nodes[n] = before.nodes[n]

\* the case C28 speaks of: source and destination in the tree, source not
\* the root, destination not in the subtree of source
Movable ==
    /\ Has(before, call.a) /\ Has(before, call.b)
    /\ call.a # before.root
    /\ call.b \notin SubtreeIds(before, call.a)

\* C28: move_node(source, destination), for source and destination in the
\* tree, source not the root and destination outside the subtree of source,
\* takes source out of its old parent's children, appends it to those of
\* destination and makes destination its parent; the ids, the root, the
\* subtree below source and the parent and children order of every other
\* node are unchanged.
C28_MoveNodeExact ==
    (Did("move_node") /\ Movable) => MoveExact

\* move_node does so on every tree that held the data model's invariants
\* when the call was made.
MoveExactOnSound ==
    (Did("move_node") /\ OnSound /\ Movable) => MoveExact

\* A node with a child is moved from under one node to under another that
\* has a child already.
MovedOnSound ==
    /\ Did("move_node") /\ OnSound /\ Movable /\ exc = "ok"
    /\ before.nodes[call.a].parent # call.b
    /\ nodes[call.a].children # <<>>
    /\ Len(nodes[call.b].children) = 2

\* C23: after any sequence of create_node, remove_node, link_past_node,
\* move_node and subtree calls on a tree, every node in the tree reports the
\* tree as its tree, and every node that remove_node or link_past_node
\* deleted from it reports None.
C23_NodeTreeLink ==
    /\ \A n \in DOMAIN nodes : tree_of[n] = "self"
    /\ (Did("remove_node") \/ Did("link_past_node")) =>
          \A n \in DOMAIN tree_of_deleted : tree_of_deleted[n] = None

\* What holds of the back references: a node deleted from the tree reports
\* None, and a node in the tree reports the tree unless a later subtree()
\* call has stored it in the Tree it returned.
NodeTreeLinkButSubtree ==
    /\ DOMAIN tree_of = DOMAIN nodes
    /\ \A n \in DOMAIN nodes : tree_of[n] \in {"self", "other"}
    /\ \A n \in DOMAIN tree_of_deleted : tree_of_deleted[n] = None

=============================================================================
